---- MODULE Spec2Model ----
(***************************************************************************)
(* A model of case_logger.py: the retrying Fetcher (fetch_steam_data), the *)
(* Event Extractor (parse_cases and its helpers), the Item Classifier      *)
(* (get_item_info), the Aggregator (process_case), the Paginator           *)
(* (paginate_inventory) and the summary (count_case_openings).             *)
(*                                                                         *)
(* Text.  A Python str is modelled as a sequence of atoms; an atom is a    *)
(* word, the single space " ", or an opaque token such as a date.  The     *)
(* patterns the program searches for                                       *)
(* ("Unlocked a container", "Genesis Terminal", " Key", "Key",             *)
(* "StatTrak(tm) ") are sequences of whole atoms, and no other atom used   *)
(* below contains a piece of one, so the atom-wise search, prefix test and *)
(* replacement agree with Python's character-wise ones on these inputs.    *)
(*                                                                         *)
(* Time.  A datetime is a positive integer (a later instant is a larger    *)
(* number); Python's None in a datetime slot is NoTime.                    *)
(***************************************************************************)
EXTENDS Integers, Sequences, FiniteSets, TLC

VARIABLES
    pc,                \* where paginate_inventory stands
    exc,               \* the exception that ended the run, "" when none
    url,               \* the request the next fetch sends
    attempt,           \* attempts made so far by the running fetch_steam_data call
    data,              \* the decoded body the Fetcher returned
    cases,             \* parse_cases' result for the current page
    idx,               \* position of the for loop over cases (1-based)
    descriptions_json, \* the current page's metadata dictionary
    total, stattrak_count, last_knife_dt, last_gloves_dt,
    all_cases, skin_counter, rarity_counter, case_counter, special_drops,
    rows,              \* data rows written to case_openings.csv after the header
    classified,        \* history: the classification of every row, in order
    summary            \* what count_case_openings printed

vars == <<pc, exc, url, attempt, data, cases, idx, descriptions_json,
          total, stattrak_count, last_knife_dt, last_gloves_dt,
          all_cases, skin_counter, rarity_counter, case_counter, special_drops,
          rows, classified, summary>>

aggregates == <<total, stattrak_count, last_knife_dt, last_gloves_dt,
                all_cases, skin_counter, rarity_counter, case_counter,
                special_drops, rows, classified>>

(***************************************************************************)
(* Bounds of the model.                                                    *)
(***************************************************************************)
\* case-opening rows the remote history holds at most
MaxHistory == 2
\* item groups in one generated history block (SpecExtract)
MaxGroups == 2
\* atoms in one generated container name (SpecExtract)
MaxNameLen == 5

(***************************************************************************)
(* Python values                                                           *)
(***************************************************************************)
NoTime == 0
NoRef == ""
Retries == 5

\* Python's truth value of a str / an Optional[datetime]
Truthy(s) == s # <<>>
HasTime(dt) == dt # NoTime

(***************************************************************************)
(* str operations on atom sequences                                        *)
(***************************************************************************)
SP == " "

startswith(s, p) == Len(s) >= Len(p) /\ SubSeq(s, 1, Len(p)) = p

endswith(s, p) == Len(s) >= Len(p) /\ SubSeq(s, Len(s) - Len(p) + 1, Len(s)) = p

\* p in s
contains(s, p) ==
    \E i \in 1..(Len(s) - Len(p) + 1) : SubSeq(s, i, i + Len(p) - 1) = p

\* s.replace(old, new): leftmost non-overlapping occurrences (old non-empty)
RECURSIVE replace(_, _, _)
replace(s, old, new) ==
    IF Len(s) < Len(old) THEN s
    ELSE IF SubSeq(s, 1, Len(old)) = old
         THEN new \o replace(SubSeq(s, Len(old) + 1, Len(s)), old, new)
         ELSE <<s[1]>> \o replace(Tail(s), old, new)

RECURSIVE lstrip(_)
lstrip(s) == IF s # <<>> /\ s[1] = SP THEN lstrip(Tail(s)) ELSE s

RECURSIVE rstrip(_)
rstrip(s) ==
    IF s # <<>> /\ s[Len(s)] = SP THEN rstrip(SubSeq(s, 1, Len(s) - 1)) ELSE s

\* s.strip()
strip(s) == rstrip(lstrip(s))

\* str.lower() of one atom, for the atoms that occur in item names
LowerAtom(a) ==
    CASE a = "StatTrak" -> "stattrak"
      [] a = "AK-47" -> "ak-47"
      [] a = "Redline" -> "redline"
      [] a = "Karambit" -> "karambit"
      [] a = "Gloves" -> "gloves"
      [] a = "Sticker" -> "sticker"
      [] a = "MP9" -> "mp9"
      [] OTHER -> a

lower(s) == [i \in 1..Len(s) |-> LowerAtom(s[i])]

\* sep.join(parts)
RECURSIVE join(_, _)
join(sep, parts) ==
    IF parts = <<>> THEN <<>>
    ELSE IF Len(parts) = 1 THEN parts[1]
    ELSE parts[1] \o sep \o join(sep, Tail(parts))

STATTRAK_PREFIX == <<"StatTrak", SP>>
MARKER == <<"Unlocked", SP, "a", SP, "container">>
EXCLUSION == <<"Genesis", SP, "Terminal">>
KEY == <<"Key">>
KEY_SUFFIX == <<SP, "Key">>
UNKNOWN_CASE == <<"Unknown", SP, "Case">>

\* normalize_name without the removal of the prefix
normalize_name_keep_prefix(name) == lower(strip(name))

normalize_name(name) ==
    lower(strip(IF startswith(name, STATTRAK_PREFIX)
                THEN SubSeq(name, Len(STATTRAK_PREFIX) + 1, Len(name))
                ELSE name))

is_stattrak(item_name) == startswith(item_name, STATTRAK_PREFIX)

(***************************************************************************)
(* Fetcher: fetch_steam_data                                               *)
(*                                                                         *)
(* One attempt's outcome is a record: net is "ok", "RequestException"      *)
(* (requests.get raised) or "JSONDecodeError" (resp.json() raised); body   *)
(* is the decoded JSON value.  A JSON value is a record: type is one of    *)
(* "null", "number", "string", "array", "object"; has says whether the     *)
(* value holds "html" (as a key of an object, an element of an array, a    *)
(* substring of a string); html, descriptions and cursor are an object's   *)
(* fields (absent descriptions are the empty dictionary, an absent cursor  *)
(* is NoCursor).                                                           *)
(***************************************************************************)
NoCursor == [present |-> FALSE, time |-> 0, time_frac |-> 0, s |-> 0]

EmptyDict == [k \in {} |-> 0]

Json(type, has) ==
    [type |-> type, has |-> has, html |-> <<>>,
     descriptions |-> EmptyDict, cursor |-> NoCursor]

Page(html, descriptions, cursor) ==
    [type |-> "object", has |-> TRUE, html |-> html,
     descriptions |-> descriptions, cursor |-> cursor]

NoData == Json("null", FALSE)

\* dict.get(key, default)
DictGet(d, key, default) == IF key \in DOMAIN d THEN d[key] ELSE default

\* the try block of one attempt: "return" (line 78), "retry" (the except
\* clause of line 79 catches) or the name of an exception line 79 does not catch
AttemptOutcome(resp) ==
    IF resp.net # "ok" THEN "retry"
    ELSE IF resp.body.type = "null" THEN "retry"
    ELSE IF resp.body.type = "number" THEN "TypeError"
    ELSE IF ~resp.body.has THEN "retry"
    ELSE "return"

(***************************************************************************)
(* Item Classifier: get_item_category, get_item_info                       *)
(*                                                                         *)
(* A metadata dictionary maps a namespace ("730") to a dictionary from     *)
(* keys to items; an item is a record with its tags, a sequence of tag     *)
(* names (Python's tags[0], tags[4], tags[5] are tags[1], tags[5],         *)
(* tags[6] here).  Tag names are plain strings; lower(), title() and the   *)
(* two substring tests are tabulated for the type names that occur.        *)
(***************************************************************************)
NAMESPACE == "730"

LowerName(n) ==
    CASE n = "Knife" -> "knife"
      [] n = "Gloves" -> "gloves"
      [] n = "Rifle" -> "rifle"
      [] n = "Sticker" -> "sticker"
      [] OTHER -> n

TitleName(n) ==
    CASE n = "knife" -> "Knife"
      [] n = "gloves" -> "Gloves"
      [] n = "rifle" -> "Rifle"
      [] n = "sticker" -> "Sticker"
      [] OTHER -> n

\* "knife" in n, "glove" in n, "Knife" in n, "Glove" in n
HasKnifeLower(n) == n \in {"knife"}
HasGloveLower(n) == n \in {"gloves"}
HasKnife(n) == n \in {"Knife"}
HasGlove(n) == n \in {"Glove", "Gloves"}

get_item_category(tags) ==
    IF tags = <<>> THEN "Unknown"
    ELSE LET type_name == LowerName(tags[1])
         IN  IF HasKnifeLower(type_name) THEN "Knife"
             ELSE IF HasGloveLower(type_name) THEN "Glove"
             ELSE TitleName(type_name)

\* f"{classid}_{instanceid}"
ItemKey(classid, instanceid) == <<classid, "_", instanceid>>

Unknown3 == [raised |-> "", rarity |-> "Unknown", wear |-> "Unknown",
             category |-> "Unknown"]

Raised(e) == [raised |-> e, rarity |-> "", wear |-> "", category |-> ""]

\* get_item_info testing the class reference only
get_item_info_classid_only(descriptions, classid, instanceid) ==
    IF classid = NoRef THEN Unknown3
    ELSE LET key == ItemKey(classid, instanceid)
             item == DictGet(DictGet(descriptions, NAMESPACE, EmptyDict),
                             key, EmptyDict)
             tags == DictGet(item, "tags", <<>>)
         IN  IF Len(tags) < 6 THEN Raised("IndexError")
             ELSE [raised |-> "", rarity |-> tags[5], wear |-> tags[6],
                   category |-> get_item_category(tags)]

\* the result triple, or the exception the call raises (raised # "")
get_item_info(descriptions, classid, instanceid) ==
    IF classid = NoRef \/ instanceid = NoRef THEN Unknown3
    ELSE LET key == ItemKey(classid, instanceid)
             item == DictGet(DictGet(descriptions, NAMESPACE, EmptyDict),
                             key, EmptyDict)
             tags == DictGet(item, "tags", <<>>)
         IN  IF Len(tags) < 6 THEN Raised("IndexError")
             ELSE [raised |-> "", rarity |-> tags[5], wear |-> tags[6],
                   category |-> get_item_category(tags)]

(***************************************************************************)
(* Event Extractor: parse_timestamp, extract_item_and_case, parse_cases    *)
(*                                                                         *)
(* A history block (div.tradehistoryrow) is a record: date_div and ts_div  *)
(* say whether the two time elements exist, date_str and time_str are      *)
(* their texts, desc is the description text, groups the sequence of       *)
(* div.tradehistory_items.  A group is a record: has_pm and has_group say  *)
(* whether its plusminus and group elements exist, sign is the plusminus   *)
(* text, items the sequence of .history_item elements, each with its text  *)
(* and its data-classid / data-instanceid attributes (NoRef when absent).  *)
(***************************************************************************)
\* datetime.strptime(combined, "%d %b, %Y %I:%M%p"), tabulated; NoTime when
\* it raises
strptime(combined) ==
    CASE combined = <<"1 Jan, 2023", SP, "10:00am">> -> 1
      [] combined = <<"1 Jun, 2023", SP, "9:00am">> -> 2
      [] combined = <<"2 Jun, 2023", SP, "9:00am">> -> 3
      [] OTHER -> NoTime

\* dt.strftime("%Y-%m-%d %H:%M:%S")
strftime(dt) ==
    CASE dt = 1 -> <<"2023-01-01 10:00:00">>
      [] dt = 2 -> <<"2023-06-01 09:00:00">>
      [] dt = 3 -> <<"2023-06-02 09:00:00">>
      [] OTHER -> <<"?">>

parse_timestamp(entry) ==
    IF entry.date_div /\ entry.ts_div
    THEN LET combined == strip(entry.date_str) \o <<SP>> \o strip(entry.time_str)
             dt_obj == strptime(combined)
         IN  IF HasTime(dt_obj)
             THEN [readable_time |-> strftime(dt_obj), dt_obj |-> dt_obj]
             ELSE [readable_time |-> combined, dt_obj |-> NoTime]
    ELSE [readable_time |-> <<"Unknown">>, dt_obj |-> NoTime]

\* lines 154-155: the consumed name with the key token removed
strip_key(case_name) ==
    IF contains(case_name, KEY) THEN replace(case_name, KEY_SUFFIX, <<>>)
    ELSE case_name

\* one iteration of the loop over items_blocks (lines 133-155)
GroupStep(acc, block) ==
    IF ~block.has_pm \/ ~block.has_group THEN acc
    ELSE IF block.items = <<>> THEN acc
    ELSE IF block.sign = "+"
         THEN [acc EXCEPT !.item_name = strip(block.items[1].text),
                          !.item_classid = block.items[1].classid,
                          !.item_instanceid = block.items[1].instanceid]
    ELSE IF block.sign = "-"
         THEN [acc EXCEPT
                 !.case_name = strip_key(strip(block.items[Len(block.items)].text))]
    ELSE acc

RECURSIVE GroupLoop(_, _)
GroupLoop(acc, blocks) ==
    IF blocks = <<>> THEN acc
    ELSE GroupLoop(GroupStep(acc, blocks[1]), Tail(blocks))

\* None in item_name / case_name is the empty str here: the code only tests
\* their truth value
extract_item_and_case(entry) ==
    LET r == GroupLoop([item_name |-> <<>>, case_name |-> <<>>,
                        item_classid |-> NoRef, item_instanceid |-> NoRef],
                       entry.groups)
    IN  IF ~Truthy(r.case_name) THEN [r EXCEPT !.case_name = UNKNOWN_CASE]
        ELSE r

\* the text nodes of a block, in document order
RECURSIVE GroupNodes(_)
GroupNodes(blocks) ==
    IF blocks = <<>> THEN <<>>
    ELSE LET b == blocks[1]
         IN  (IF b.has_pm THEN <<<<b.sign>>>> ELSE <<>>)
             \o (IF b.has_group
                 THEN [i \in 1..Len(b.items) |-> b.items[i].text]
                 ELSE <<>>)
             \o GroupNodes(Tail(blocks))

TextNodes(entry) ==
    (IF entry.date_div THEN <<entry.date_str>> ELSE <<>>)
    \o (IF entry.ts_div THEN <<entry.time_str>> ELSE <<>>)
    \o <<entry.desc>>
    \o GroupNodes(entry.groups)

RECURSIVE StripNodes(_)
StripNodes(nodes) ==
    IF nodes = <<>> THEN <<>>
    ELSE (IF strip(nodes[1]) = <<>> THEN <<>> ELSE <<strip(nodes[1])>>)
         \o StripNodes(Tail(nodes))

\* entry.get_text(" ", strip=True)
get_text(entry) == join(<<SP>>, StripNodes(TextNodes(entry)))

\* Qualifies without the exclusion test
Qualifies_marker_only(text) == contains(text, MARKER)

\* line 168: the block is a case opening
Qualifies(text) == contains(text, MARKER) /\ ~contains(text, EXCLUSION)

\* parse_entry without the test of line 174
parse_entry_keep_nameless(entry) ==
    LET text == get_text(entry)
        ts == parse_timestamp(entry)
        ic == extract_item_and_case(entry)
    IN  IF ~Qualifies(text) THEN <<>>
        ELSE << [readable_time |-> ts.readable_time, dt_obj |-> ts.dt_obj,
                 item_name |-> ic.item_name, case_name |-> ic.case_name,
                 text |-> text, classid |-> ic.item_classid,
                 instanceid |-> ic.item_instanceid] >>

\* lines 167-179 for one block: the tuples it adds to cases (none or one)
parse_entry(entry) ==
    LET text == get_text(entry)
        ts == parse_timestamp(entry)
        ic == extract_item_and_case(entry)
    IN  IF ~Qualifies(text) THEN <<>>
        ELSE IF ~Truthy(ic.item_name) THEN <<>>
        ELSE << [readable_time |-> ts.readable_time, dt_obj |-> ts.dt_obj,
                 item_name |-> ic.item_name, case_name |-> ic.case_name,
                 text |-> text, classid |-> ic.item_classid,
                 instanceid |-> ic.item_instanceid] >>

RECURSIVE parse_cases(_)
parse_cases(html) ==
    IF html = <<>> THEN <<>>
    ELSE parse_entry(html[1]) \o parse_cases(Tail(html))

(***************************************************************************)
(* Summary: print_item_history as count_case_openings calls it             *)
(***************************************************************************)
\* cases_since with >= in the place of >
RECURSIVE cases_since_or_at(_, _)
cases_since_or_at(all, last_dt) ==
    IF all = <<>> THEN 0
    ELSE (IF HasTime(all[1].dt_obj) /\ all[1].dt_obj >= last_dt THEN 1 ELSE 0)
         + cases_since_or_at(Tail(all), last_dt)

\* sum(1 for _, dt_obj, *_ in all_cases if dt_obj and dt_obj > last_dt)
RECURSIVE cases_since(_, _)
cases_since(all, last_dt) ==
    IF all = <<>> THEN 0
    ELSE (IF HasTime(all[1].dt_obj) /\ all[1].dt_obj > last_dt THEN 1 ELSE 0)
         + cases_since(Tail(all), last_dt)

\* the message printed: a count, or "No ... found in history."
print_item_history(last_dt, all) ==
    IF HasTime(last_dt)
    THEN [found |-> TRUE, last |-> strftime(last_dt),
          cases_since |-> cases_since(all, last_dt)]
    ELSE [found |-> FALSE, last |-> <<>>, cases_since |-> 0]

NotPrinted == [printed |-> FALSE, total |-> 0, stattrak_count |-> 0,
               knife |-> print_item_history(NoTime, <<>>),
               gloves |-> print_item_history(NoTime, <<>>)]

(***************************************************************************)
(* Aggregator: process_case                                                *)
(***************************************************************************)
SPECIAL == {"Classified", "Covert", "Contraband", "Extraordinary"}

\* Inc setting the count to one
Inc_set_to_one(counter, k) ==
    [x \in DOMAIN counter \cup {k} |-> IF x = k THEN 1 ELSE counter[x]]

\* Counter()[k] += 1
Inc(counter, k) ==
    IF k \in DOMAIN counter THEN [counter EXCEPT ![k] = @ + 1]
    ELSE [x \in DOMAIN counter \cup {k} |-> IF x = k THEN 1 ELSE counter[x]]

stattrak_flag(item_name) == IF is_stattrak(item_name) THEN "Yes" ELSE "No"

\* knife_update keeping the later of the two times
knife_update_max(last, category, dt_obj) ==
    IF HasKnife(category) /\ HasTime(dt_obj) /\ dt_obj > last THEN dt_obj ELSE last

\* knife_update without the test of dt_obj
knife_update_untimed(last, category, dt_obj) ==
    IF HasKnife(category) THEN dt_obj ELSE last

\* line 209 / line 211: the new value of last_knife_dt / last_gloves_dt
knife_update(last, category, dt_obj) ==
    IF HasKnife(category) /\ HasTime(dt_obj) THEN dt_obj ELSE last

gloves_update(last, category, dt_obj) ==
    IF HasGlove(category) /\ HasTime(dt_obj) THEN dt_obj ELSE last

\* is_special without the gloves' rarity
is_special_no_gloves(rarity) == rarity \in {"Classified", "Covert", "Contraband"}

\* line 229
is_special(rarity) == rarity \in SPECIAL

\* process_case putting the event in front of all_cases
process_case_in_front(case, info) ==
    LET flag == stattrak_flag(case.item_name)
    IN  /\ all_cases' = <<case>> \o all_cases
        /\ last_knife_dt' = knife_update(last_knife_dt, info.category, case.dt_obj)
        /\ last_gloves_dt' = gloves_update(last_gloves_dt, info.category, case.dt_obj)
        /\ rows' = Append(rows,
               [readable_time |-> case.readable_time, item_name |-> case.item_name,
                case_name |-> case.case_name, desc |-> case.text,
                rarity |-> info.rarity, wear |-> info.wear, stattrak |-> flag])
        /\ classified' = Append(classified, info.category)
        /\ stattrak_count' = stattrak_count + (IF flag = "Yes" THEN 1 ELSE 0)
        /\ skin_counter' = Inc(skin_counter, normalize_name(case.item_name))
        /\ rarity_counter' = Inc(rarity_counter, info.rarity)
        /\ case_counter' = Inc(case_counter, case.case_name)
        /\ special_drops' =
             IF is_special(info.rarity)
             THEN Append(special_drops,
                    [readable_time |-> case.readable_time,
                     item_name |-> case.item_name, rarity |-> info.rarity,
                     wear |-> info.wear, case_name |-> case.case_name,
                     stattrak |-> flag])
             ELSE special_drops

\* process_case when get_item_info returns info (lines 204-232)
process_case(case, info) ==
    LET flag == stattrak_flag(case.item_name)
    IN  /\ all_cases' = Append(all_cases, case)
        /\ last_knife_dt' = knife_update(last_knife_dt, info.category, case.dt_obj)
        /\ last_gloves_dt' = gloves_update(last_gloves_dt, info.category, case.dt_obj)
        /\ rows' = Append(rows,
               [readable_time |-> case.readable_time, item_name |-> case.item_name,
                case_name |-> case.case_name, desc |-> case.text,
                rarity |-> info.rarity, wear |-> info.wear, stattrak |-> flag])
        /\ classified' = Append(classified, info.category)
        /\ stattrak_count' = stattrak_count + (IF flag = "Yes" THEN 1 ELSE 0)
        /\ skin_counter' = Inc(skin_counter, normalize_name(case.item_name))
        /\ rarity_counter' = Inc(rarity_counter, info.rarity)
        /\ case_counter' = Inc(case_counter, case.case_name)
        /\ special_drops' =
             IF is_special(info.rarity)
             THEN Append(special_drops,
                    [readable_time |-> case.readable_time,
                     item_name |-> case.item_name, rarity |-> info.rarity,
                     wear |-> info.wear, case_name |-> case.case_name,
                     stattrak |-> flag])
             ELSE special_drops

(***************************************************************************)
(* The remote side: the history blocks, metadata dictionaries, cursors and *)
(* responses the service may send.                                         *)
(***************************************************************************)
Item(text, classid, instanceid) ==
    [text |-> text, classid |-> classid, instanceid |-> instanceid]

Group(sign, items) ==
    [has_pm |-> TRUE, has_group |-> TRUE, sign |-> sign, items |-> items]

Block(date_str, time_str, desc, groups) ==
    [date_div |-> TRUE, ts_div |-> TRUE, date_str |-> <<date_str>>,
     time_str |-> <<time_str>>, desc |-> desc, groups |-> groups]

KARAMBIT == Item(<<"Karambit">>, "c1", "i1")
GLOVES == Item(<<"Sport", SP, "Gloves">>, "c2", "i1")
AK == Item(<<"AK-47", SP, "Redline">>, "c3", "i1")
STAT_AK == Item(<<"StatTrak", SP, "AK-47", SP, "Redline">>, "c4", "i1")
STICKER == Item(<<"Sticker">>, NoRef, NoRef)
BRAVO_CASE == Item(<<"Bravo", SP, "Case">>, "c7", "i1")
BRAVO_KEY == Item(<<"Bravo", SP, "Case", SP, "Key">>, "c8", "i1")

\* a container-unlock block: the case and its key consumed, one item gained
Opening(date_str, time_str, gained) ==
    Block(date_str, time_str, MARKER,
          << Group("-", <<BRAVO_CASE, BRAVO_KEY>>), Group("+", <<gained>>) >>)

RowPool ==
    { Opening("1 Jan, 2023", "10:00am", KARAMBIT),
      Opening("1 Jun, 2023", "9:00am", KARAMBIT),
      Opening("2 Jun, 2023", "9:00am", GLOVES),
      Opening("1 Jun, 2023", "9:00am", AK),
      Opening("yesterday", "9:00am", STAT_AK),
      Opening("yesterday", "10:00am", KARAMBIT),
      Opening("2 Jun, 2023", "9:00am", STICKER),
      Block("1 Jun, 2023", "9:00am", MARKER, << Group("-", <<BRAVO_KEY>>) >>) }

Tags(type, rarity, wear) == [tags |-> <<type, "t2", "t3", "t4", rarity, wear>>]

DescrFull ==
    (NAMESPACE :>
        (ItemKey("c1", "i1") :> Tags("Knife", "Covert", "Factory New")
         @@ ItemKey("c2", "i1") :> Tags("Gloves", "Extraordinary", "Field-Tested")
         @@ ItemKey("c3", "i1") :> Tags("Rifle", "Classified", "Field-Tested")
         @@ ItemKey("c4", "i1") :> Tags("Rifle", "Classified", "Minimal Wear")))

\* the rifles' keys are missing
DescrPartial ==
    (NAMESPACE :>
        (ItemKey("c1", "i1") :> Tags("Knife", "Covert", "Factory New")
         @@ ItemKey("c2", "i1") :> Tags("Gloves", "Extraordinary", "Field-Tested")))

Dicts == {DescrFull, DescrPartial, EmptyDict}

Cursor(time, time_frac, s) ==
    [present |-> TRUE, time |-> time, time_frac |-> time_frac, s |-> s]

Cursors == {NoCursor, Cursor(11, 12, 13), Cursor(21, 22, 23)}

SeqsUpTo(S, n) == UNION {[1..k -> S] : k \in 0..n}

\* the pages the service may send when the history has room more blocks
Pages(room) ==
    {Page(html, d, c) : html \in SeqsUpTo(RowPool, room), d \in Dicts, c \in Cursors}

\* bodies that are not a page
OtherBodies ==
    {Json("string", TRUE), Json("string", FALSE), Json("array", TRUE),
     Json("array", FALSE), Json("object", FALSE), Json("null", FALSE),
     Json("number", FALSE)}

Responses(room) ==
    {[net |-> n, body |-> NoData] : n \in {"RequestException", "JSONDecodeError"}}
    \cup {[net |-> "ok", body |-> b] : b \in Pages(room) \cup OtherBodies}

(***************************************************************************)
(* Paginator: paginate_inventory, and count_case_openings after it         *)
(***************************************************************************)
InitialUrl == [paged |-> FALSE, time |-> 0, time_frac |-> 0, s |-> 0]

\* NextUrl with cursor.time in the place of cursor.time_frac
NextUrl_time_twice(cursor) ==
    [paged |-> TRUE, time |-> cursor.time, time_frac |-> cursor.time,
     s |-> cursor.s]

\* lines 269-274
NextUrl(cursor) ==
    [paged |-> TRUE, time |-> cursor.time, time_frac |-> cursor.time_frac,
     s |-> cursor.s]

\* lines 235-243 and the state before the first request
Fresh ==
    /\ exc = ""
    /\ url = InitialUrl
    /\ cases = <<>>
    /\ idx = 1
    /\ descriptions_json = EmptyDict
    /\ total = 0
    /\ stattrak_count = 0
    /\ last_knife_dt = NoTime
    /\ last_gloves_dt = NoTime
    /\ all_cases = <<>>
    /\ skin_counter = EmptyDict
    /\ rarity_counter = EmptyDict
    /\ case_counter = EmptyDict
    /\ special_drops = <<>>
    /\ rows = <<>>
    /\ classified = <<>>
    /\ summary = NotPrinted

Init ==
    /\ pc = "FETCHING"
    /\ attempt = 0
    /\ data = NoData
    /\ Fresh

\* an exception nobody catches ends the program
Crash(e) == pc' = "CRASHED" /\ exc' = e

\* break_on_none without the test of line 251: line 254 calls None.get
break_on_none_unchecked == Crash("AttributeError")

\* lines 251-252 and 277: the Fetcher returned None
break_on_none == pc' = "FAILED" /\ UNCHANGED exc

\* one iteration of the loop of fetch_steam_data (lines 72-81); after the
\* last failed one the call returns None (lines 82-83) and the while loop ends
FetchAttempt ==
    /\ pc = "FETCHING"
    /\ attempt < Retries
    /\ \E resp \in Responses(MaxHistory - Len(all_cases)) :
         LET outcome == AttemptOutcome(resp)
         IN  /\ attempt' = attempt + 1
             /\ IF outcome = "return"
                THEN pc' = "EXTRACTING" /\ data' = resp.body /\ UNCHANGED exc
                ELSE IF outcome = "retry"
                THEN IF attempt + 1 = Retries
                     THEN data' = NoData /\ break_on_none
                     ELSE UNCHANGED <<pc, exc, data>>
                ELSE Crash(outcome) /\ UNCHANGED data
    /\ UNCHANGED <<url, cases, idx, descriptions_json, aggregates, summary>>

\* Extract keeping the dictionary of an earlier page when there is one
Extract_stale_descriptions ==
    /\ pc = "EXTRACTING"
    /\ IF data.type # "object"
       THEN Crash("AttributeError") /\ UNCHANGED <<cases, idx, descriptions_json>>
       ELSE /\ cases' = parse_cases(data.html)
            /\ descriptions_json' =
                 IF url.paged THEN descriptions_json ELSE data.descriptions
            /\ idx' = 1
            /\ pc' = "AGGREGATING"
            /\ UNCHANGED exc
    /\ UNCHANGED <<url, attempt, data, aggregates, summary>>

\* lines 254-255
Extract ==
    /\ pc = "EXTRACTING"
    /\ IF data.type # "object"
       THEN Crash("AttributeError") /\ UNCHANGED <<cases, idx, descriptions_json>>
       ELSE /\ cases' = parse_cases(data.html)
            /\ descriptions_json' = data.descriptions
            /\ idx' = 1
            /\ pc' = "AGGREGATING"
            /\ UNCHANGED exc
    /\ UNCHANGED <<url, attempt, data, aggregates, summary>>

\* one iteration of the for loop (lines 257-263)
Aggregate ==
    /\ pc = "AGGREGATING"
    /\ idx <= Len(cases)
    /\ LET case == cases[idx]
           info == get_item_info(descriptions_json, case.classid, case.instanceid)
       IN  IF info.raised # ""
           THEN /\ all_cases' = Append(all_cases, case)
                /\ Crash(info.raised)
                /\ UNCHANGED <<idx, total, stattrak_count, last_knife_dt,
                               last_gloves_dt, skin_counter, rarity_counter,
                               case_counter, special_drops, rows, classified>>
           ELSE /\ process_case(case, info)
                /\ total' = total + 1
                /\ idx' = idx + 1
                /\ UNCHANGED <<pc, exc>>
    /\ UNCHANGED <<url, attempt, data, cases, descriptions_json, summary>>

\* Advance leaving the attempts of the earlier page counted
Advance_shared_budget ==
    /\ pc = "AGGREGATING"
    /\ idx > Len(cases)
    /\ IF ~data.cursor.present
       THEN pc' = "DONE" /\ UNCHANGED <<url, attempt>>
       ELSE url' = NextUrl(data.cursor) /\ attempt' = attempt /\ pc' = "FETCHING"
    /\ UNCHANGED <<exc, data, cases, idx, descriptions_json, aggregates, summary>>

\* lines 265-275: the for loop is over
Advance ==
    /\ pc = "AGGREGATING"
    /\ idx > Len(cases)
    /\ IF ~data.cursor.present
       THEN pc' = "DONE" /\ UNCHANGED <<url, attempt>>
       ELSE url' = NextUrl(data.cursor) /\ attempt' = 0 /\ pc' = "FETCHING"
    /\ UNCHANGED <<exc, data, cases, idx, descriptions_json, aggregates, summary>>

\* count_case_openings after paginate_inventory returned (lines 283-314)
Report ==
    /\ pc \in {"DONE", "FAILED"}
    /\ ~summary.printed
    /\ summary' = [printed |-> TRUE, total |-> total,
                   stattrak_count |-> stattrak_count,
                   knife |-> print_item_history(last_knife_dt, all_cases),
                   gloves |-> print_item_history(last_gloves_dt, all_cases)]
    /\ UNCHANGED <<pc, exc, url, attempt, data, cases, idx, descriptions_json,
                   aggregates>>

Next == FetchAttempt \/ Extract \/ Aggregate \/ Advance \/ Report

Spec == Init /\ [][Next]_vars

(***************************************************************************)
(* The Extractor on generated markup: the first page has just been         *)
(* returned by the first attempt and holds one generated history block;    *)
(* the run goes on from there (the page has no cursor).                    *)
(***************************************************************************)
NameAtoms == {"Case", SP, "Key"}

\* consumed-item texts
Names == SeqsUpTo(NameAtoms, MaxNameLen)

\* a block that consumes one item with the given text and gains a rifle
KeyBlock(name) ==
    Block("1 Jun, 2023", "9:00am", MARKER,
          << Group("-", <<Item(name, "c7", "i1")>>), Group("+", <<AK>>) >>)

GENESIS == Item(EXCLUSION, "c6", "i1")
NAMELESS == Item(<<SP>>, "c3", "i1")

GroupPool ==
    { Group("+", <<AK>>),
      Group("+", <<STICKER, AK>>),
      Group("+", <<NAMELESS>>),
      Group("+", <<>>),
      Group("-", <<BRAVO_CASE, BRAVO_KEY>>),
      Group("-", <<GENESIS>>),
      Group("x", <<STAT_AK>>),
      [Group("+", <<STAT_AK>>) EXCEPT !.has_pm = FALSE],
      [Group("+", <<>>) EXCEPT !.has_group = FALSE] }

DescPool == {MARKER, <<"Traded">>, EXCLUSION \o <<SP>> \o MARKER}

ShapeBlocks ==
    {Block("1 Jun, 2023", "9:00am", desc, groups) :
        desc \in DescPool, groups \in SeqsUpTo(GroupPool, MaxGroups)}

ItemNameAtoms == {"StatTrak", SP, "AK-47"}

\* gained-item texts
ItemNames == SeqsUpTo(ItemNameAtoms, MaxNameLen)

\* a block that gains one item with the given text
NameBlock(name) ==
    Block("1 Jun, 2023", "9:00am", MARKER,
          << Group("-", <<BRAVO_CASE>>), Group("+", <<Item(name, "c3", "i1")>>) >>)

\* a block that gains one item with the given data-classid / data-instanceid
RefBlock(classid, instanceid) ==
    Block("1 Jun, 2023", "9:00am", MARKER,
          << Group("-", <<BRAVO_CASE>>),
             Group("+", <<Item(<<"Karambit">>, classid, instanceid)>>) >>)

RefBlocks == {RefBlock(c, i) : c \in {NoRef, "c1"}, i \in {NoRef, "i1"}}

\* a dictionary with entries under the keys an absent reference would give
DescrAbsentRefs ==
    (NAMESPACE :>
        (ItemKey("c1", "i1") :> Tags("Knife", "Covert", "Factory New")
         @@ ItemKey(NoRef, "i1") :> Tags("Knife", "Covert", "Factory New")
         @@ ItemKey("c1", NoRef) :> Tags("Knife", "Covert", "Factory New")
         @@ ItemKey(NoRef, NoRef) :> Tags("Knife", "Covert", "Factory New")))

RefDicts == Dicts \cup {DescrAbsentRefs}

GeneratedBlocks ==
    {KeyBlock(n) : n \in Names} \cup ShapeBlocks \cup {NameBlock(n) : n \in ItemNames}

InitExtract ==
    /\ pc = "EXTRACTING"
    /\ attempt = 1
    /\ \/ \E b \in GeneratedBlocks : data = Page(<<b>>, DescrFull, NoCursor)
       \/ \E b \in RefBlocks, d \in RefDicts : data = Page(<<b>>, d, NoCursor)
    /\ Fresh

NextExtract == Extract \/ Aggregate \/ Advance \/ Report

SpecExtract == InitExtract /\ [][NextExtract]_vars

(***************************************************************************)
(* Properties                                                              *)
(***************************************************************************)
\* C1: a fetch whose attempts all fail (network error, undecodable body, a
\* decoded body that is empty or has no html field) makes exactly Retries
\* attempts and then returns None: no such body is ever returned as a page,
\* none ends the call with an exception, and the call fails only after its
\* last attempt.
C1_FailedAttemptsExhaust ==
    /\ exc # "TypeError"
    /\ (pc = "EXTRACTING" => data.type = "object" /\ data.has)
    /\ (pc = "FAILED" => attempt = Retries)

\* a step in which the Fetcher returns None
FetcherGivesUp ==
    /\ pc = "FETCHING"
    /\ attempt' = Retries
    /\ data' = NoData
    /\ exc' # "TypeError"

\* C2: when the Fetcher gives up on a page the Paginator goes to FAILED
\* without an exception; FAILED is entered from FETCHING only, the
\* aggregates do not change while a page is being fetched nor after FAILED,
\* so they are those left by the pages processed before (whose for loop is
\* over), and they are what the summary prints; no fetch follows.
C2_FailedReturnsPartial ==
    [][ /\ (FetcherGivesUp => pc' = "FAILED" /\ exc' = "")
        /\ (pc' = "FAILED" => pc \in {"FETCHING", "FAILED"})
        /\ (pc = "FETCHING" => aggregates' = aggregates /\ idx = Len(cases) + 1)
        /\ (pc = "FAILED" =>
              /\ pc' = "FAILED" /\ exc' = ""
              /\ UNCHANGED <<url, attempt, data, cases, idx, aggregates>>
              /\ (summary' # summary =>
                    /\ summary'.total = total
                    /\ summary'.stattrak_count = stattrak_count)) ]_vars

C2_Witness ==
    /\ pc = "FAILED"
    /\ summary.printed
    /\ total = 2
    /\ special_drops # <<>>
    /\ url.paged

\* the key of a case's references is missing from the dictionary
KeyMissing(descriptions, case) ==
    /\ case.classid # NoRef
    /\ case.instanceid # NoRef
    /\ \/ NAMESPACE \notin DOMAIN descriptions
       \/ ItemKey(case.classid, case.instanceid) \notin DOMAIN descriptions[NAMESPACE]

\* C3: for an event whose references are present but whose key (or the
\* namespace) is missing from the page's dictionary, get_item_info returns
\* ("Unknown", "Unknown", "Unknown") without raising, and the run goes on to
\* count the event.
C3_MissingKeyIsUnknown ==
    /\ pc = "AGGREGATING" =>
         \A i \in 1..Len(cases) :
            KeyMissing(descriptions_json, cases[i]) =>
               get_item_info(descriptions_json, cases[i].classid,
                             cases[i].instanceid) = Unknown3
    /\ exc # "IndexError"

\* the latest structured time among the accepted events of a category,
\* NoTime when there is none
LatestOf(cat) ==
    LET ts == {all_cases[i].dt_obj : i \in {j \in 1..Len(classified) :
                    classified[j] = cat /\ all_cases[j].dt_obj # NoTime}}
    IN  IF ts = {} THEN NoTime ELSE CHOOSE t \in ts : \A u \in ts : u <= t

\* C4: last_knife_dt is the latest structured time among the accepted Knife
\* events (absent when there is none), whatever the order they came in, and
\* likewise last_gloves_dt for the Glove events.
C4_LastIsLatest ==
    /\ last_knife_dt = LatestOf("Knife")
    /\ last_gloves_dt = LatestOf("Glove")

RECURSIVE SpecialRows(_)
SpecialRows(rs) ==
    IF rs = <<>> THEN <<>>
    ELSE (IF rs[1].rarity \in {"Classified", "Covert", "Contraband", "Extraordinary"}
          THEN << [readable_time |-> rs[1].readable_time,
                   item_name |-> rs[1].item_name, rarity |-> rs[1].rarity,
                   wear |-> rs[1].wear, case_name |-> rs[1].case_name,
                   stattrak |-> rs[1].stattrak] >>
          ELSE <<>>) \o SpecialRows(Tail(rs))

\* C5: in every state special_drops is the subsequence, in encounter order,
\* of the accepted events (the rows written) whose rarity is Classified,
\* Covert, Contraband or Extraordinary.
C5_SpecialDropsExact == special_drops = SpecialRows(rows)

C5_Witness ==
    /\ Len(rows) = 2
    /\ rows[1].rarity = "Unknown"
    /\ rows[2].rarity = "Extraordinary"
    /\ Len(special_drops) = 1

PageAggregated == pc = "AGGREGATING" /\ idx > Len(cases)

\* C6: the Paginator moves FETCHING -> EXTRACTING -> AGGREGATING ->
\* (FETCHING or DONE), an uncaught exception being the only other way out;
\* once a page is aggregated the next step fetches again exactly when the
\* page carries a cursor, with the request built from that page's
\* cursor.time, cursor.time_frac and cursor.s, and ends in DONE otherwise;
\* nothing is fetched, extracted or aggregated after DONE or FAILED.
C6_StateMachine ==
    [][ /\ (pc = "FETCHING" =>
              pc' \in {"FETCHING", "EXTRACTING", "FAILED", "CRASHED"})
        /\ (pc = "EXTRACTING" => pc' \in {"AGGREGATING", "CRASHED"})
        /\ (pc = "AGGREGATING" /\ ~PageAggregated =>
              pc' \in {"AGGREGATING", "CRASHED"})
        /\ (PageAggregated /\ data.cursor.present =>
              /\ pc' = "FETCHING"
              /\ attempt' = 0
              /\ url' = [paged |-> TRUE, time |-> data.cursor.time,
                         time_frac |-> data.cursor.time_frac,
                         s |-> data.cursor.s])
        /\ (PageAggregated /\ ~data.cursor.present => pc' = "DONE")
        /\ (url' # url => PageAggregated)
        /\ (pc \in {"DONE", "FAILED", "CRASHED"} =>
              UNCHANGED <<pc, url, attempt, data, cases, idx, aggregates>>) ]_vars

C6_Witness ==
    /\ pc = "FETCHING"
    /\ data.cursor = Cursor(21, 22, 23)
    /\ url = [paged |-> TRUE, time |-> 21, time_frac |-> 22, s |-> 23]
    /\ total = 1

\* the accepted events with a structured time strictly later than t
LaterThan(t) ==
    {i \in 1..Len(all_cases) :
        all_cases[i].dt_obj # NoTime /\ all_cases[i].dt_obj > t}

\* C7: the "openings since" figure printed for a reference time is the
\* number of accepted events with a structured time strictly later than it
\* (events without one, and events at or before it, are not counted); with
\* no reference time the "none found" message is printed instead.
C7_OpeningsSince ==
    summary.printed =>
        /\ summary.knife.found = (last_knife_dt # NoTime)
        /\ summary.gloves.found = (last_gloves_dt # NoTime)
        /\ (summary.knife.found =>
              summary.knife.cases_since = Cardinality(LaterThan(last_knife_dt)))
        /\ (summary.gloves.found =>
              summary.gloves.cases_since = Cardinality(LaterThan(last_gloves_dt)))

C7_Witness ==
    /\ summary.printed
    /\ summary.knife.found
    /\ summary.knife.cases_since = 1
    /\ ~summary.gloves.found
    /\ \E i \in 1..Len(all_cases) : all_cases[i].dt_obj = last_knife_dt

\* the groups of a block that name a gained item: a "+" sign, both
\* elements present, at least one item
GainGroups(entry) ==
    {i \in 1..Len(entry.groups) :
        /\ entry.groups[i].has_pm /\ entry.groups[i].has_group
        /\ entry.groups[i].sign = "+" /\ entry.groups[i].items # <<>>}

\* the gained item's name: the first item of the last such group, <<>> when
\* the block has none
Gained(entry) ==
    IF GainGroups(entry) = {} THEN <<>>
    ELSE LET g == CHOOSE i \in GainGroups(entry) : \A j \in GainGroups(entry) : j <= i
         IN  strip(entry.groups[g].items[1].text)

HasMarker(entry) == contains(get_text(entry), MARKER)
HasExclusion(entry) == contains(get_text(entry), EXCLUSION)

\* the blocks of a page that are counted
Counted(html) ==
    {i \in 1..Len(html) :
        HasMarker(html[i]) /\ ~HasExclusion(html[i]) /\ Gained(html[i]) # <<>>}

\* C8: every event the Extractor emits, and every element of all_cases,
\* has a non-empty item_name; a qualifying block without a resolvable
\* gained item gives no event and changes no aggregate, and the qualifying
\* blocks with one are each emitted and, once the page is processed, counted.
C8_EventsHaveItem ==
    /\ \A i \in 1..Len(cases) : cases[i].item_name # <<>>
    /\ \A i \in 1..Len(all_cases) : all_cases[i].item_name # <<>>
    /\ (pc \in {"AGGREGATING", "DONE"} =>
          /\ Len(cases) = Cardinality(Counted(data.html))
          /\ \A i \in Counted(data.html) :
                \E j \in 1..Len(cases) : cases[j].item_name = Gained(data.html[i]))
    /\ (pc = "DONE" =>
          /\ total = Cardinality(Counted(data.html))
          /\ Len(all_cases) = total
          /\ Len(rows) = total)

C8_Witness ==
    /\ pc = "DONE"
    /\ HasMarker(data.html[1])
    /\ ~HasExclusion(data.html[1])
    /\ \E i \in 1..Len(data.html[1].groups) :
          /\ data.html[1].groups[i].sign = "+"
          /\ data.html[1].groups[i].items # <<>>
    /\ Gained(data.html[1]) = <<>>
    /\ total = 0
    /\ rows = <<>>

\* C9: a block yields an event only if its flattened text contains
\* "Unlocked a container" and does not contain "Genesis Terminal"; a block
\* with both phrases, and a block without the marker, yields none.
C9_MarkerAndExclusion ==
    pc \in {"AGGREGATING", "DONE"} =>
        /\ \A i \in 1..Len(cases) :
              /\ contains(cases[i].text, MARKER)
              /\ ~contains(cases[i].text, EXCLUSION)
        /\ \A i \in 1..Len(data.html) :
              (~HasMarker(data.html[i]) \/ HasExclusion(data.html[i])) =>
                  \A j \in 1..Len(cases) : cases[j].text # get_text(data.html[i])

C9_Witness ==
    /\ pc = "DONE"
    /\ HasMarker(data.html[1])
    /\ HasExclusion(data.html[1])
    /\ Gained(data.html[1]) # <<>>
    /\ cases = <<>>
    /\ total = 0

\* a page that holds one KeyBlock, and the name it consumes
IsKeyPage == \E n \in Names : data.html = <<KeyBlock(n)>>
Consumed == strip(data.html[1].groups[1].items[1].text)

\* n without its trailing " Key"
WithoutKeySuffix(n) ==
    IF endswith(n, KEY_SUFFIX) THEN SubSeq(n, 1, Len(n) - Len(KEY_SUFFIX)) ELSE n

\* C10: the stored case name is the consumed name without its trailing
\* " Key" when it ends with it, and the consumed name unchanged otherwise
\* (a " Key" elsewhere in the name stays).
C10_KeySuffixOnly ==
    (pc = "AGGREGATING" /\ IsKeyPage /\ Consumed # <<>>) =>
        cases[1].case_name = WithoutKeySuffix(Consumed)

\* a page that holds one NameBlock
IsNamePage == \E n \in ItemNames : data.html = <<NameBlock(n)>>

\* the name after its leading "StatTrak(tm) "
AfterPrefix(x) == SubSeq(x, Len(STATTRAK_PREFIX) + 1, Len(x))

\* the key the one accepted event was counted under
CountedUnder(key) == DOMAIN skin_counter = {key}

\* C11 as stated: for every display name n, the name "StatTrak(tm) " + n is
\* counted under the key normalize_name gives n, and the stored and emitted
\* item_name keeps its prefix and casing.
C11_PrefixIgnored ==
    (pc = "DONE" /\ IsNamePage /\ total = 1) =>
        LET x == all_cases[1].item_name
        IN  /\ rows[1].item_name = x
            /\ x = Gained(data.html[1])
            /\ (startswith(x, STATTRAK_PREFIX) =>
                  CountedUnder(normalize_name(AfterPrefix(x))))

\* C11 amended: the same for every display name n that does not itself
\* begin with "StatTrak(tm) " (one leading prefix is removed, not more).
C11_OnePrefixIgnored ==
    (pc = "DONE" /\ IsNamePage /\ total = 1) =>
        LET x == all_cases[1].item_name
        IN  /\ rows[1].item_name = x
            /\ x = Gained(data.html[1])
            /\ (startswith(x, STATTRAK_PREFIX)
                  /\ ~startswith(AfterPrefix(x), STATTRAK_PREFIX) =>
                  CountedUnder(normalize_name(AfterPrefix(x))))
            /\ (~startswith(x, STATTRAK_PREFIX) =>
                  CountedUnder([i \in 1..Len(x) |-> LowerAtom(x[i])]))

C11_Witness ==
    /\ pc = "DONE"
    /\ IsNamePage
    /\ total = 1
    /\ all_cases[1].item_name = <<"StatTrak", SP, "AK-47">>
    /\ rows[1].item_name = <<"StatTrak", SP, "AK-47">>
    /\ rows[1].stattrak = "Yes"
    /\ DOMAIN skin_counter = {<<"ak-47">>}

counters == <<total, stattrak_count, last_knife_dt, last_gloves_dt,
              skin_counter, rarity_counter, case_counter, special_drops,
              rows, classified>>

\* C12: the classification of an event is get_item_info of its reference
\* pair and of the metadata dictionary of the page in flight, and of nothing
\* else: every step that classifies cases[idx] either writes a row whose
\* rarity, wear and category are that value, or ends the run with the
\* exception that value is, whatever the counters, the last knife and gloves
\* times and the earlier pages' dictionaries are; classifying changes neither
\* the page nor its dictionary, and when it raises no counter has changed.
C12_ClassificationPure ==
    [][(pc = "AGGREGATING" /\ idx <= Len(cases)) =>
          LET case == cases[idx]
              info == get_item_info(data.descriptions, case.classid,
                                    case.instanceid)
          IN  /\ data' = data
              /\ descriptions_json' = descriptions_json
              /\ cases' = cases
              /\ IF info.raised # ""
                 THEN /\ pc' = "CRASHED"
                      /\ exc' = info.raised
                      /\ counters' = counters
                 ELSE /\ pc' = "AGGREGATING"
                      /\ Len(rows') = Len(rows) + 1
                      /\ rows'[Len(rows')].rarity = info.rarity
                      /\ rows'[Len(rows')].wear = info.wear
                      /\ classified' = Append(classified, info.category)]_vars

\* the second page's event was classified against the second page's dictionary
C12_Witness ==
    /\ pc = "DONE"
    /\ url.paged
    /\ Len(rows) = 2
    /\ Len(cases) = 1
    /\ classified = <<"Knife", "Rifle">>
    /\ rows[2].rarity = "Classified"
    /\ last_knife_dt # NoTime
    /\ descriptions_json = DescrFull

\* the row written by this step when it accepted an event
Accepted == pc = "AGGREGATING" /\ Len(rows') = Len(rows) + 1

\* C13: simple replacement: immediately after accepting an event classified
\* as Knife that carries a structured time t, last_knife_dt is t whatever it
\* was before (earlier or later than t); likewise last_gloves_dt and Glove
\* events; no other step changes either of them.
C13_SimpleReplacement ==
    [][/\ Accepted =>
            LET t == cases[idx].dt_obj
                category == classified'[Len(classified')]
            IN  /\ (HasKnife(category) /\ t # NoTime) => last_knife_dt' = t
                /\ (HasGlove(category) /\ t # NoTime) => last_gloves_dt' = t
                /\ ~HasKnife(category) => last_knife_dt' = last_knife_dt
                /\ ~HasGlove(category) => last_gloves_dt' = last_gloves_dt
       /\ ~Accepted => UNCHANGED <<last_knife_dt, last_gloves_dt>>]_vars

\* a later knife was accepted before an earlier one: the earlier replaced it
C13_Witness ==
    /\ pc = "DONE"
    /\ classified = <<"Knife", "Knife">>
    /\ all_cases[1].dt_obj # NoTime
    /\ all_cases[2].dt_obj # NoTime
    /\ all_cases[2].dt_obj < all_cases[1].dt_obj
    /\ last_knife_dt = all_cases[2].dt_obj

Count(counter, k) == IF k \in DOMAIN counter THEN counter[k] ELSE 0

\* C14: an event without a structured time (its timestamp did not parse) is
\* aggregated like any other: the step that accepts it appends it to
\* all_cases, writes its row with the fallback time string, adds one to the
\* total, to its rarity's, its case's and its skin's counter, and to the
\* StatTrak count when its name has the prefix, and leaves last_knife_dt and
\* last_gloves_dt as they were, whatever its category.
C14_UnparsedTimeCounted ==
    [][(Accepted /\ cases[idx].dt_obj = NoTime) =>
          LET case == cases[idx]
              row == rows'[Len(rows')]
          IN  /\ all_cases' = Append(all_cases, case)
              /\ row.readable_time = case.readable_time
              /\ row.item_name = case.item_name
              /\ total' = total + 1
              /\ Count(rarity_counter', row.rarity) =
                    Count(rarity_counter, row.rarity) + 1
              /\ Count(case_counter', case.case_name) =
                    Count(case_counter, case.case_name) + 1
              /\ Count(skin_counter', normalize_name(case.item_name)) =
                    Count(skin_counter, normalize_name(case.item_name)) + 1
              /\ stattrak_count' =
                    stattrak_count + (IF is_stattrak(case.item_name) THEN 1 ELSE 0)
              /\ last_knife_dt' = last_knife_dt
              /\ last_gloves_dt' = last_gloves_dt]_vars

\* a knife without a structured time was counted after a dated knife
C14_Witness ==
    /\ pc = "DONE"
    /\ total = 2
    /\ classified = <<"Knife", "Knife">>
    /\ all_cases[1].dt_obj # NoTime
    /\ all_cases[2].dt_obj = NoTime
    /\ last_knife_dt = all_cases[1].dt_obj
    /\ Count(rarity_counter, "Covert") = 2

\* the CSV row of an event
RowOf(case, row) ==
    /\ row.readable_time = case.readable_time
    /\ row.item_name = case.item_name
    /\ row.case_name = case.case_name
    /\ row.desc = case.text

\* the last n elements of s
Tail_n(s, n) == SubSeq(s, Len(s) - n + 1, Len(s))

\* all_cases ends with the events of the current page aggregated so far, and
\* the rows are the rows of all_cases in the same order
InPageOrder ==
    /\ Len(rows) <= Len(all_cases)
    /\ \A i \in 1..Len(rows) : RowOf(all_cases[i], rows[i])
    /\ pc # "CRASHED" => Len(rows) = Len(all_cases)
    /\ pc = "AGGREGATING" =>
          /\ idx - 1 <= Len(all_cases)
          /\ Tail_n(all_cases, idx - 1) = SubSeq(cases, 1, idx - 1)
    /\ pc \in {"FETCHING", "EXTRACTING", "DONE", "FAILED"} =>
          /\ Len(cases) <= Len(all_cases)
          /\ Tail_n(all_cases, Len(cases)) = cases

\* C15: processing is sequential and keeps the order: a page's events are
\* those parse_cases extracts from it, they are aggregated one at a time in
\* page order, each appended to the end of all_cases and, as its row, to the
\* end of the rows; the next page is requested, or the run ends, only when all
\* of them have been aggregated, and nothing else changes all_cases or the
\* rows, so that at the end of a run both are the concatenation, in fetch
\* order, of the pages' events.
C15_SequentialInOrder ==
    [][/\ InPageOrder'
       /\ (pc = "EXTRACTING" /\ pc' = "AGGREGATING") =>
             cases' = parse_cases(data.html) /\ idx' = 1
       /\ pc # "EXTRACTING" => cases' = cases
       /\ (pc = "AGGREGATING" /\ pc' \in {"FETCHING", "DONE"}) => idx > Len(cases)
       /\ all_cases' # all_cases =>
             /\ pc = "AGGREGATING"
             /\ idx <= Len(cases)
             /\ all_cases' = Append(all_cases, cases[idx])
             /\ pc' = "AGGREGATING" => idx' = idx + 1
       /\ rows' # rows =>
             /\ all_cases' # all_cases
             /\ Len(rows') = Len(rows) + 1]_vars

\* two pages of one event each: the second page's event comes second
C15_Witness ==
    /\ pc = "DONE"
    /\ url.paged
    /\ total = 2
    /\ Len(cases) = 1
    /\ all_cases[2] = cases[1]
    /\ all_cases[1] # all_cases[2]
    /\ RowOf(all_cases[1], rows[1])
    /\ RowOf(all_cases[2], rows[2])

IsRefPage == data.html[1] \in RefBlocks

AbsentRef(case) == case.classid = NoRef \/ case.instanceid = NoRef

\* C16: an event whose class reference or instance reference is absent or
\* empty is classified Unknown, Unknown, Unknown whatever the page's
\* dictionary holds, entries under the keys "_i", "c_" and "_" included: the
\* step that aggregates it writes its row with rarity and wear Unknown,
\* records the category Unknown and goes on to the next event.
C16_AbsentRefIsUnknown ==
    [][(pc = "AGGREGATING" /\ idx <= Len(cases) /\ AbsentRef(cases[idx])) =>
          /\ pc' = "AGGREGATING"
          /\ idx' = idx + 1
          /\ Len(rows') = Len(rows) + 1
          /\ rows'[Len(rows')].rarity = "Unknown"
          /\ rows'[Len(rows')].wear = "Unknown"
          /\ classified' = Append(classified, "Unknown")
          /\ UNCHANGED <<last_knife_dt, last_gloves_dt, special_drops>>]_vars

\* the instance reference alone is absent and the dictionary has the key "c1_"
C16_Witness ==
    /\ pc = "DONE"
    /\ IsRefPage
    /\ data.descriptions = DescrAbsentRefs
    /\ total = 1
    /\ all_cases[1].classid = "c1"
    /\ all_cases[1].instanceid = NoRef
    /\ rows[1].rarity = "Unknown"
    /\ rows[1].wear = "Unknown"
    /\ classified = <<"Unknown">>

\* C17 as stated: a fetch makes at most Retries attempts, and a run is
\* either under way (fetching with an attempt left, extracting, aggregating:
\* the states from which it takes a further step) or has ended in DONE or
\* FAILED; it stops nowhere else.
C17_EndsDoneOrFailed ==
    /\ attempt <= Retries
    /\ pc = "FETCHING" => attempt < Retries
    /\ pc \in {"FETCHING", "EXTRACTING", "AGGREGATING", "DONE", "FAILED"}

RECURSIVE SumOver(_, _)
SumOver(counter, keys) ==
    IF keys = {} THEN 0
    ELSE LET k == CHOOSE x \in keys : TRUE
         IN  counter[k] + SumOver(counter, keys \ {k})

\* sum(counter.values())
Sum(counter) == SumOver(counter, DOMAIN counter)

FlaggedYes == {i \in 1..Len(rows) : rows[i].stattrak = "Yes"}

PrefixedEvents ==
    {i \in 1..Len(all_cases) : startswith(all_cases[i].item_name, STATTRAK_PREFIX)}

AggregatesAgree ==
    /\ total = Len(all_cases)
    /\ total = Len(rows)
    /\ total = Sum(rarity_counter)
    /\ total = Sum(case_counter)
    /\ total = Sum(skin_counter)
    /\ stattrak_count = Cardinality(FlaggedYes)
    /\ stattrak_count = Cardinality(PrefixedEvents)
    /\ stattrak_count <= total

NotLess(counter_before, counter_after) ==
    \A k \in DOMAIN counter_before :
        k \in DOMAIN counter_after /\ counter_after[k] >= counter_before[k]

NoneDecreases ==
    /\ total' >= total
    /\ stattrak_count' >= stattrak_count
    /\ NotLess(rarity_counter, rarity_counter')
    /\ NotLess(case_counter, case_counter')
    /\ NotLess(skin_counter, skin_counter')

\* C18: between events (before a fetch, after a page, between two events of
\* a page, at DONE and at FAILED) total is the length of all_cases, the
\* number of rows written, and the sum of each of the three counters; the
\* StatTrak count is the number of rows flagged Yes, which is the number of
\* events whose name starts with the prefix, and is at most total; and no
\* step makes total, the StatTrak count or any counter entry smaller.
C18_AggregatesAgree ==
    /\ [](pc # "CRASHED" => AggregatesAgree)
    /\ [][NoneDecreases]_vars

\* two events of the same skin, rarity and case, one of them StatTrak
C18_Witness ==
    /\ pc = "DONE"
    /\ total = 2
    /\ stattrak_count = 1
    /\ Count(rarity_counter, "Classified") = 2
    /\ Count(skin_counter, <<"ak-47", SP, "redline">>) = 2
    /\ Count(case_counter, <<"Bravo", SP, "Case">>) = 2
    /\ Sum(rarity_counter) = 2

\* C19: the retry budget is per page and a success ends the call: while a
\* page is being fetched each step is the next attempt (attempt goes up by
\* one, and there is one left to make), the call gives up only after attempt
\* Retries, a successful attempt hands its page over at once and no attempt
\* is made while that page is extracted and aggregated, and the request for
\* the next page starts with no attempt made, whatever the earlier pages took.
C19_BudgetPerPage ==
    [][/\ pc = "FETCHING" =>
            /\ attempt < Retries
            /\ attempt' = attempt + 1
            /\ pc' = "FAILED" => attempt' = Retries
            /\ pc' = "EXTRACTING" => data'.has
       /\ pc # "FETCHING" =>
            /\ pc' = "FETCHING" =>
                  /\ pc = "AGGREGATING"
                  /\ attempt' = 0
                  /\ url' = NextUrl(data.cursor)
            /\ pc' # "FETCHING" => attempt' = attempt /\ url' = url]_vars

\* the second page came at the last attempt of its own budget
C19_Witness ==
    /\ pc = "EXTRACTING"
    /\ url.paged
    /\ attempt = Retries
    /\ total = 1
    /\ data.type = "object"
    /\ Len(data.html) = 1

====
